---- MODULE Spec2Model ----
(***************************************************************************)
(* A model of investment_estimator.py (class InvestmentEstimator).         *)
(*                                                                         *)
(* Python numbers are tagged records [k, u]:                               *)
(*   k = "int"   : a Python int of value u (unbounded in Python)           *)
(*   k = "float" : a finite float worth u * 2^-FracBits                    *)
(*   k = "inf"   : float("inf");  k = "nan" : float("nan")                 *)
(*   k = "None"  : None                                                    *)
(* Floats are a scaled-down binary floating-point format: MantBits bits of *)
(* significand, round-to-nearest-even, overflow to infinity above          *)
(* FloatMaxU, and a smallest spacing of 2^-FracBits.  An IEEE double is    *)
(* the same format with 53 bits and a largest exponent of 1023.            *)
(***************************************************************************)
EXTENDS Integers, Sequences, FiniteSets

VARIABLES
    cap_gains_rate,        \* self._cap_gains_rate
    annual_return_rate,    \* self._annual_return_rate
    monthly_contribution,  \* self._monthly_contribution
    years_to_invest,       \* self._years_to_invest
    age,                   \* self._age
    year_checkpoints,      \* self._year_checkpoints
    pc,                    \* position of run()
    idx,                   \* position of "for years in self._year_checkpoints"
    months,                \* argument of _invest_monthly
    i,                     \* loop variable of _invest_monthly
    total,                 \* accumulator of _invest_monthly
    output,                \* what run() has printed, one record per print()
    fmt_pc,                \* position of _format_num
    arg,                   \* the argument of _format_num
    num,                   \* num of _format_num, after line 144
    rounded,               \* rounded of _format_num
    result,                \* the string _format_num returns
    in_pc,                 \* position of _get_inputs and of its _get_input call
    prompt_no,             \* which of the five prompts of _get_inputs is open
    value,                 \* value of _get_input
    entered,               \* the line input() returned last
    answers,               \* per prompt, the line that ended its _get_input
    returned               \* per prompt, the value its _get_input returned

params == <<cap_gains_rate, annual_return_rate, monthly_contribution,
            years_to_invest, age>>
runVars == <<year_checkpoints, pc, idx, months, i, total, output>>
formatVars == <<fmt_pc, arg, num, rounded, result>>
inputVars == <<in_pc, prompt_no, value, entered, answers, returned>>
vars == <<params, runVars, formatVars, inputVars>>

----------------------------------------------------------------------------
(* Bounds of the model *)

MantBits == 12
FracBits == 11
MaxExp == 16
MaxYears == 11
MaxPad == 22

(* Program constants *)

YEAR_CHECKPOINT_STEP == 5
LEFT_DIGITS_TO_ROUND_TO == 3
DEFAULT_YEARS_TO_INVEST == 20
MaxSize == 2147483647

----------------------------------------------------------------------------
(* Python values *)

IntV(n) == [k |-> "int", u |-> n]
Fin(n) == [k |-> "float", u |-> n]
Inf == [k |-> "inf", u |-> 0]
NaN == [k |-> "nan", u |-> 0]
None == [k |-> "None", u |-> 0]
Unset == [k |-> "unset", u |-> 0]

Abs(n) == IF n < 0 THEN -n ELSE n

Unit == 2^FracBits
FloatMaxU == (2^MantBits - 1) * 2^(MaxExp - MantBits + 1) * Unit

BitLen(n) == CHOOSE b \in 0..31 : (b = 31 \/ n < 2^b) /\ (b = 0 \/ 2^(b-1) <= n)

\* The float nearest to n + r/denom (n >= 0, 0 <= r < denom, in units of
\* 2^-FracBits): MantBits significant bits, ties to even, infinity beyond
\* the largest finite float.
RoundParts(n, r, denom) ==
    LET e == IF n < 2^MantBits THEN 0 ELSE BitLen(n) - MantBits
        m == n \div 2^e
        low == n % 2^e
        up == IF e = 0
              THEN 2 * r > denom \/ (2 * r = denom /\ m % 2 = 1)
              ELSE \/ low > 2^(e-1)
                   \/ low = 2^(e-1) /\ (r > 0 \/ m % 2 = 1)
        res == (m + IF up THEN 1 ELSE 0) * 2^e
    IN IF res > FloatMaxU THEN Inf ELSE Fin(res)

\* The float nearest to the non-negative rational numer/denom
RoundRat(numer, denom) == RoundParts(numer \div denom, numer % denom, denom)

Neg(x) == IF x.k = "float" THEN Fin(-x.u) ELSE x

RoundSigned(numer, denom) ==
    IF numer < 0 THEN Neg(RoundRat(-numer, denom)) ELSE RoundRat(numer, denom)

\* float(n) for a Python int n; the result "inf" stands for
\* OverflowError("int too large to convert to float").
IntToFloat(n) ==
    IF Abs(n) > 2 * (FloatMaxU \div Unit) THEN Inf
    ELSE RoundSigned(n * Unit, 1)

\* The float operand of an arithmetic operator: an int operand is converted.
AsFloat(x) == IF x.k = "int" THEN IntToFloat(x.u) ELSE x

\* x + y, x - y, x * y, x / y on floats (operands already converted, finite
\* or +inf, never inf - inf or 0 * inf in this program).
FAdd(x, y) ==
    IF x.k = "inf" \/ y.k = "inf" THEN Inf ELSE RoundSigned(x.u + y.u, 1)

FSub(x, y) ==
    IF x.k = "inf" THEN Inf ELSE RoundSigned(x.u - y.u, 1)

\* The product a * b / Unit is formed from the whole and the fractional part
\* of the larger factor, so that no intermediate exceeds the product.
FMul(x, y) ==
    IF x.k = "inf" \/ y.k = "inf" THEN Inf
    ELSE LET a == IF Abs(x.u) >= Abs(y.u) THEN Abs(x.u) ELSE Abs(y.u)
             b == IF Abs(x.u) >= Abs(y.u) THEN Abs(y.u) ELSE Abs(x.u)
             whole == (a \div Unit) * b + ((a % Unit) * b) \div Unit
             part == ((a % Unit) * b) % Unit
             p == RoundParts(whole, part, Unit)
         IN IF (x.u < 0) # (y.u < 0) THEN Neg(p) ELSE p

\* The divisors of this program, 12 and 100, are whole numbers.
FDiv(x, y) ==
    IF x.k = "inf" THEN Inf
    ELSE IF y.u % Unit = 0 THEN RoundSigned(x.u, y.u \div Unit)
    ELSE RoundSigned(x.u * Unit, y.u)

One == IntToFloat(1)

\* The float a decimal literal pct/100 denotes (0.1 is Literal(10)).
Literal(pct) == RoundRat(pct * Unit, 100)

DEFAULT_ANNUAL_RETURN_RATE == Literal(10)
DEFAULT_CAP_GAINS_RATE == Literal(15)

\* int(x): truncation toward zero of a finite float, identity on an int.
IntOf(x) ==
    IF x.k = "int" THEN x.u
    ELSE IF x.u < 0 THEN -((-x.u) \div Unit) ELSE x.u \div Unit

----------------------------------------------------------------------------
(* Python ints of any size (10**24 and beyond) are decimal              *)
(* records [mant, exp] worth mant * 10^exp; the quotient _format_num       *)
(* prints is such a record too, with exp < 0 for digits after the point.   *)

Dec(m, e) == [mant |-> m, exp |-> e]

NumDigits(n) == CHOOSE d \in 1..9 : n < 10^d /\ (d = 1 \/ 10^(d-1) <= n)

\* len(str(num)) for an int num: its decimal digits, and the minus sign.
StrLen(x) ==
    (IF x.mant < 0 THEN 1 ELSE 0)
    + (IF x.mant = 0 THEN 1 ELSE NumDigits(Abs(x.mant)) + x.exp)

\* The one representation of a value: no trailing zero in mant, 0 is Dec(0,0).
RECURSIVE Norm(_)
Norm(x) ==
    IF x.mant = 0 THEN Dec(0, 0)
    ELSE IF x.mant % 10 = 0 THEN Norm(Dec(x.mant \div 10, x.exp + 1))
    ELSE x

\* a < b for non-negative a, b
MagLT(a, b) ==
    IF a.mant = 0 THEN b.mant > 0
    ELSE IF b.mant = 0 THEN FALSE
    ELSE LET la == NumDigits(a.mant) + a.exp
             lb == NumDigits(b.mant) + b.exp
             lo == IF a.exp < b.exp THEN a.exp ELSE b.exp
         IN IF la # lb THEN la < lb
            ELSE a.mant * 10^(a.exp - lo) < b.mant * 10^(b.exp - lo)

DecNeg(a) == Dec(-a.mant, a.exp)

\* a < b
DecLT(a, b) ==
    IF a.mant < 0
    THEN IF b.mant < 0 THEN MagLT(DecNeg(b), DecNeg(a)) ELSE TRUE
    ELSE IF b.mant < 0 THEN FALSE ELSE MagLT(a, b)

\* round(x, ndigits) for an int x: unchanged for ndigits >= 0, else the
\* nearest multiple of 10^-ndigits, ties to the even multiple.
PyRound(x, ndigits) ==
    IF ndigits >= 0 \/ -ndigits <= x.exp THEN x
    ELSE LET q == 10^(-ndigits - x.exp)
             a == Abs(x.mant)
             m == a \div q
             r == a % q
             up == 2 * r > q \/ (2 * r = q /\ m % 2 = 1)
             res == m + IF up THEN 1 ELSE 0
         IN IF res = 0 THEN Dec(0, 0)
            ELSE Dec(IF x.mant < 0 THEN -res ELSE res, -ndigits)

\* x * a and x / a for a power of ten a
MulPow10(x, a) == Norm(Dec(x.mant, x.exp + a.exp))
DivPow10(x, a) == Norm(Dec(x.mant, x.exp - a.exp))

LARGE_NUM_ABBREVIATIONS ==
    << [amount |-> Dec(1, 3), abbreviation |-> "K"],
       [amount |-> Dec(1, 6), abbreviation |-> "M"],
       [amount |-> Dec(1, 9), abbreviation |-> "B"],
       [amount |-> Dec(1, 12), abbreviation |-> "T"],
       [amount |-> Dec(1, 15), abbreviation |-> "Qa"],
       [amount |-> Dec(1, 18), abbreviation |-> "Qi"],
       [amount |-> Dec(1, 21), abbreviation |-> "Sx"],
       [amount |-> Dec(1, 24), abbreviation |-> "Sp"] >>

LARGEST_NUM == LARGE_NUM_ABBREVIATIONS[Len(LARGE_NUM_ABBREVIATIONS)].amount
LARGEST_NUM_ABBREVIATION ==
    LARGE_NUM_ABBREVIATIONS[Len(LARGE_NUM_ABBREVIATIONS)].abbreviation

\* line 145: the value _format_num abbreviates
Rounded(x) == PyRound(x, LEFT_DIGITS_TO_ROUND_TO - StrLen(x))

\* "~$<value>:g<suffix>"; value is the number printed, suffix what follows it
Text(v, s) == [value |-> v, suffix |-> s]

\* Mutant: the scan stops at the first threshold not below the value
RECURSIVE ScanInclusive(_, _, _, _)
ScanInclusive(r, j, prev_amount, prev_abbreviation) ==
    IF j > Len(LARGE_NUM_ABBREVIATIONS)
    THEN Text(DivPow10(MulPow10(r, Dec(1, 3)), LARGEST_NUM),
              LARGEST_NUM_ABBREVIATION)
    ELSE IF ~DecLT(LARGE_NUM_ABBREVIATIONS[j].amount, r)
    THEN Text(DivPow10(r, prev_amount), prev_abbreviation)
    ELSE ScanInclusive(r, j + 1, LARGE_NUM_ABBREVIATIONS[j].amount,
                       LARGE_NUM_ABBREVIATIONS[j].abbreviation)

\* lines 149-155: the scan of the table from entry j on
RECURSIVE Scan(_, _, _, _)
Scan(r, j, prev_amount, prev_abbreviation) ==
    IF j > Len(LARGE_NUM_ABBREVIATIONS)
    THEN Text(DivPow10(MulPow10(r, Dec(1, 3)), LARGEST_NUM),
              LARGEST_NUM_ABBREVIATION)
    ELSE IF DecLT(r, LARGE_NUM_ABBREVIATIONS[j].amount)
    THEN Text(DivPow10(r, prev_amount), prev_abbreviation)
    ELSE Scan(r, j + 1, LARGE_NUM_ABBREVIATIONS[j].amount,
              LARGE_NUM_ABBREVIATIONS[j].abbreviation)

\* _format_num(num) for num already passed through int()
FormatNum(x) == Scan(Rounded(x), 1, Dec(1, 0), "")

\* _format_num(x) for a Python int or finite float x
FormatValue(x) == FormatNum(Dec(IntOf(x), 0))

----------------------------------------------------------------------------
(* run(get_inputs=False) on an estimator constructed with validated        *)
(* parameters                                                              *)

\* range(YEAR_CHECKPOINT_STEP, years, YEAR_CHECKPOINT_STEP) from start on
RECURSIVE Range(_, _, _)
Range(start, stop, step) ==
    IF start >= stop THEN <<>>
    ELSE <<start>> \o Range(start + step, stop, step)

\* Mutant: the range includes its stop value
CalculateYearCheckpointsInclusive(years) ==
    Range(YEAR_CHECKPOINT_STEP, years + 1, YEAR_CHECKPOINT_STEP) \o <<years>>

\* _calculate_year_checkpoints
CalculateYearCheckpoints(years) ==
    Range(YEAR_CHECKPOINT_STEP, years, YEAR_CHECKPOINT_STEP) \o <<years>>

\* 1 + (self._annual_return_rate / 12)
GrowthFactor(rate) == FAdd(One, FDiv(AsFloat(rate), IntToFloat(12)))

\* Mutant: the month's growth is applied before the contribution is added
InvestStepGrowFirst(t, contribution, rate) ==
    LET c == AsFloat(contribution)
    IN IF c.k = "inf" THEN None
       ELSE FAdd(FMul(t, GrowthFactor(rate)), c)

\* One iteration of the loop of _invest_monthly on the accumulator t; the
\* result "None" stands for the OverflowError of converting the int
\* contribution to a float.
InvestStep(t, contribution, rate) ==
    LET c == AsFloat(contribution)
    IN IF c.k = "inf" THEN None
       ELSE FMul(FAdd(t, c), GrowthFactor(rate))

\* The contributions tried: 1 and 100, an int that is no float
\* (2^(MantBits+1) + 2 lies between two floats), a float so large that the
\* second month overflows, and an int beyond the largest float.
Contributions ==
    {1, 100, 2^(MantBits + 1) + 2, 2^MaxExp, 2^(MaxExp + 1)}

\* Rates in [0, 1]: 0, the smallest positive float, 10% and 100%.
ReturnRates == {Fin(0), Fin(1), Literal(10), Fin(Unit)}
CapGainsRates == {Fin(0), Literal(15), Fin(Unit)}
Ages == {0, 30}

\* A line read by input(): "" (blank), a word that is no number, "nan",
\* "inf", or a numeral n/d (d = 1: no decimal point) with or without a
\* trailing "%".
Line(kind, n, d, pct) == [kind |-> kind, n |-> n, d |-> d, pct |-> pct]
Blank == Line("blank", 0, 1, FALSE)
Word == Line("word", 0, 1, FALSE)
NanLine == Line("nan", 0, 1, FALSE)
InfLine == Line("inf", 0, 1, FALSE)
Numeral(n, d, pct) == Line("numeral", n, d, pct)

\* _format_num and _get_inputs not running
FormatIdle ==
    /\ fmt_pc = "idle"
    /\ arg = Dec(0, 0)
    /\ num = Dec(0, 0)
    /\ rounded = Dec(0, 0)
    /\ result = Text(Dec(0, 0), "")

InputIdle ==
    /\ in_pc = "idle"
    /\ prompt_no = 0
    /\ value = None
    /\ entered = Blank
    /\ answers = <<>>
    /\ returned = <<>>

Init ==
    /\ cap_gains_rate \in CapGainsRates
    /\ annual_return_rate \in ReturnRates
    /\ monthly_contribution \in {IntV(c) : c \in Contributions}
    /\ years_to_invest \in {IntV(y) : y \in 1..MaxYears}
    /\ age \in {IntV(a) : a \in Ages}
    /\ year_checkpoints = <<>>
    /\ pc = "run"
    /\ idx = 0
    /\ months = 0
    /\ i = 0
    /\ total = Fin(0)
    /\ output = <<>>
    /\ FormatIdle
    /\ InputIdle

\* line 161
CalculateCheckpoints ==
    /\ pc = "run"
    /\ year_checkpoints' = CalculateYearCheckpoints(years_to_invest.u)
    /\ idx' = 1
    /\ pc' = "for_years"
    /\ UNCHANGED <<params, months, i, total, output, formatVars, inputVars>>

\* lines 163-166 and 134: the next checkpoint, _invest_monthly entered
NextCheckpoint ==
    /\ pc = "for_years"
    /\ idx <= Len(year_checkpoints)
    /\ months' = year_checkpoints[idx] * 12
    /\ total' = Fin(0)
    /\ i' = 0
    /\ pc' = "invest_monthly"
    /\ UNCHANGED <<params, year_checkpoints, idx, output, formatVars, inputVars>>

\* lines 136-138: one month
InvestMonth ==
    /\ pc = "invest_monthly"
    /\ i < months
    /\ LET t == InvestStep(total, monthly_contribution, annual_return_rate)
       IN IF t.k = "None"
          THEN /\ pc' = "raised"
               /\ UNCHANGED <<total, i>>
          ELSE /\ total' = t
               /\ i' = i + 1
               /\ pc' = pc
    /\ UNCHANGED <<params, year_checkpoints, idx, months, output, formatVars,
                 inputVars>>

\* f" (age {self._age + years})" if self._age > 0 else "": the age shown, 0
\* for the empty string
AgeStr(years) == IF age.u > 0 THEN age.u + years ELSE 0

\* The record of the print() of lines 178-183: the values and their texts
Report(years, principal, profit, annual_return, annual_return_after_tax) ==
    [kind |-> "report",
     years |-> years,
     age |-> AgeStr(years),
     total |-> total,
     principal |-> principal,
     profit |-> profit,
     annual_return |-> annual_return,
     annual_return_after_tax |-> annual_return_after_tax,
     text |-> << FormatValue(total), FormatValue(principal),
                 FormatValue(profit), FormatValue(annual_return),
                 FormatValue(annual_return_after_tax) >>]

\* The record of the print() of lines 169-171
OverflowMessage(years) ==
    [kind |-> "overflow",
     years |-> years,
     text |-> << FormatValue(Fin(FloatMaxU)) >>]

\* line 174
Principal(contribution, m) == IntV(contribution.u * m)

\* line 175
Profit(t, principal) == FSub(t, AsFloat(principal))

\* line 176
AnnualReturn(t, rate) == FMul(t, AsFloat(rate))

\* Mutant: the tax rate is applied instead of its complement
AnnualReturnTaxOnly(annual_return, cap) ==
    FMul(annual_return, AsFloat(cap))

\* line 177
AnnualReturnAfterTax(annual_return, cap) ==
    FMul(annual_return, FSub(One, AsFloat(cap)))

\* Mutant: the loop goes on to the next checkpoint after the overflow message
OverflowContinue(k) == [pc |-> "for_years", idx |-> k + 1]

\* line 172: the return after the overflow message, at checkpoint number k
OverflowReturn(k) == [pc |-> "done", idx |-> k]

\* lines 140 and 168-183: _invest_monthly returns, the checkpoint is printed
PrintCheckpoint ==
    /\ pc = "invest_monthly"
    /\ i >= months
    /\ LET years == year_checkpoints[idx]
           principal == Principal(monthly_contribution, months)
           profit == Profit(total, principal)
           annual_return == AnnualReturn(total, annual_return_rate)
           annual_return_after_tax ==
               AnnualReturnAfterTax(annual_return, cap_gains_rate)
       IN IF total.k = "inf"
          THEN /\ output' = Append(output, OverflowMessage(years))
               /\ pc' = OverflowReturn(idx).pc
               /\ idx' = OverflowReturn(idx).idx
          ELSE IF AsFloat(principal).k = "inf"
          THEN /\ pc' = "raised"
               /\ UNCHANGED <<output, idx>>
          ELSE /\ output' = Append(output,
                       Report(years, principal, profit, annual_return,
                              annual_return_after_tax))
               /\ idx' = idx + 1
               /\ pc' = "for_years"
    /\ UNCHANGED <<params, year_checkpoints, months, i, total, formatVars,
                 inputVars>>

\* the for loop of line 163 is exhausted: run returns
Return ==
    /\ pc = "for_years"
    /\ idx > Len(year_checkpoints)
    /\ pc' = "done"
    /\ UNCHANGED <<params, year_checkpoints, idx, months, i, total, output,
                 formatVars, inputVars>>

Next ==
    \/ CalculateCheckpoints
    \/ NextCheckpoint
    \/ InvestMonth
    \/ PrintCheckpoint
    \/ Return

Spec == Init /\ [][Next]_vars

----------------------------------------------------------------------------
(* _format_num(arg), a static method, called on its own *)

\* The arguments tried: ints of 1 to 6 digits, negative ones too, followed
\* by 0 to MaxPad zeros (up to 10^28), and three floats with a fraction.
FormatMantissas ==
    {5, 999, 1000, 1005, 1015, 9995, 9996, 123456, 999499, 999500,
     -16, -123, -1234, -123456}

FormatArgs ==
    {Dec(m, e) : m \in FormatMantissas, e \in 0..MaxPad}
    \cup {Dec(0, 0), Dec(5, -1), Dec(9999, -1), Dec(-15, -1)}

\* int(x): the integer part, truncated toward zero
IntPart(x) ==
    IF x.exp >= 0 THEN x
    ELSE LET a == Abs(x.mant) \div 10^(-x.exp)
         IN Dec(IF x.mant < 0 THEN -a ELSE a, 0)

\* No estimator is running
RunIdle ==
    /\ cap_gains_rate = DEFAULT_CAP_GAINS_RATE
    /\ annual_return_rate = DEFAULT_ANNUAL_RETURN_RATE
    /\ monthly_contribution = Unset
    /\ years_to_invest = Unset
    /\ age = Unset
    /\ year_checkpoints = <<>>
    /\ pc = "idle"
    /\ idx = 0
    /\ months = 0
    /\ i = 0
    /\ total = Fin(0)
    /\ output = <<>>

FormatInit ==
    /\ RunIdle
    /\ InputIdle
    /\ fmt_pc = "int"
    /\ arg \in FormatArgs
    /\ num = Dec(0, 0)
    /\ rounded = Dec(0, 0)
    /\ result = Text(Dec(0, 0), "")

\* line 144
FormatInt ==
    /\ fmt_pc = "int"
    /\ num' = IntPart(arg)
    /\ fmt_pc' = "round"
    /\ UNCHANGED <<params, runVars, inputVars, arg, rounded, result>>

\* line 145
FormatRound ==
    /\ fmt_pc = "round"
    /\ rounded' = Rounded(num)
    /\ fmt_pc' = "scan"
    /\ UNCHANGED <<params, runVars, inputVars, arg, num, result>>

\* lines 146-155
FormatScan ==
    /\ fmt_pc = "scan"
    /\ result' = Scan(rounded, 1, Dec(1, 0), "")
    /\ fmt_pc' = "return"
    /\ UNCHANGED <<params, runVars, inputVars, arg, num, rounded>>

FormatNext ==
    \/ FormatInt
    \/ FormatRound
    \/ FormatScan

SpecFormat == FormatInit /\ [][FormatNext]_vars

----------------------------------------------------------------------------
(* _get_inputs on a freshly constructed estimator; the user types any of   *)
(* Lines at every prompt                                                   *)

\* "", "abc", "nan", "inf", "0", "-5", "7", "15%", "0.105", "250%"
Lines ==
    {Blank, Word, NanLine, InfLine, Numeral(0, 1, FALSE),
     Numeral(-5, 1, FALSE), Numeral(7, 1, FALSE), Numeral(15, 1, TRUE),
     Numeral(105, 1000, FALSE), Numeral(250, 1, TRUE)}

ValueError == [k |-> "ValueError", u |-> 0]
OverflowError == [k |-> "OverflowError", u |-> 0]

\* float(s) for a line s without its "%"
PyFloat(s) ==
    CASE s.kind = "numeral" -> RoundSigned(s.n * Unit, s.d)
      [] s.kind = "nan" -> NaN
      [] s.kind = "inf" -> Inf
      [] OTHER -> ValueError

\* x / 100 for a float x
Div100(x) ==
    IF x.k = "float" THEN FDiv(x, IntToFloat(100)) ELSE x

\* lines 81-87: convert_fn of _get_percent_input
PercentConvert(s) ==
    LET as_float == PyFloat(s)
    IN IF as_float = ValueError THEN ValueError
       ELSE IF s.pct THEN Div100(as_float)
       ELSE IF as_float.k = "float" /\ as_float.u < Unit THEN as_float
       ELSE Div100(as_float)

\* lines 99-100: convert_fn of _get_int_input
IntConvert(s) ==
    IF s.kind = "numeral" /\ s.d = 1 /\ ~s.pct THEN IntV(s.n) ELSE ValueError

\* The five calls of _get_inputs (lines 109-121); enforce_positive is left at
\* its default, True.
Call(convert_fn, default) ==
    [convert_fn |-> convert_fn, default |-> default, enforce_positive |-> TRUE]

GetInputCalls ==
    << Call("percent", DEFAULT_CAP_GAINS_RATE),
       Call("percent", DEFAULT_ANNUAL_RETURN_RATE),
       Call("int", None),
       Call("int", IntV(DEFAULT_YEARS_TO_INVEST)),
       Call("int", IntV(MaxSize)) >>

\* lines 61-67: convert_input
ConvertInput(s, call) ==
    IF call.default # None /\ s = Blank THEN call.default
    ELSE LET v == IF call.convert_fn = "percent" THEN PercentConvert(s)
                  ELSE IntConvert(s)
         IN IF v = ValueError THEN None ELSE v

\* value <= 0
LeqZero(v) == v.k \in {"int", "float"} /\ v.u <= 0

\* line 70: the condition of the while loop
NeedsRetry(v, call) ==
    v = None \/ (call.enforce_positive /\ LeqZero(v))

\* int(v) of lines 89 and 102
PyInt(v) ==
    CASE v.k = "nan" -> ValueError
      [] v.k = "inf" -> OverflowError
      [] OTHER -> IntV(IntOf(v))

InputInit ==
    /\ RunIdle
    /\ FormatIdle
    /\ in_pc = "prompt"
    /\ prompt_no = 1
    /\ value = None
    /\ entered = Blank
    /\ answers = <<>>
    /\ returned = <<>>

\* line 69: the first input() of a _get_input call
Prompt(s) ==
    /\ in_pc = "prompt"
    /\ entered' = s
    /\ value' = ConvertInput(s, GetInputCalls[prompt_no])
    /\ in_pc' = "while"
    /\ UNCHANGED <<params, runVars, formatVars, prompt_no, answers, returned>>

\* lines 70-71: the value is refused, input(error_prompt) is read
Reprompt(s) ==
    /\ in_pc = "while"
    /\ NeedsRetry(value, GetInputCalls[prompt_no])
    /\ entered' = s
    /\ value' = ConvertInput(s, GetInputCalls[prompt_no])
    /\ UNCHANGED <<params, runVars, formatVars, in_pc, prompt_no, answers,
                   returned>>

\* The assignment of _get_inputs that follows prompt p (lines 109-122)
Assign(p, w) ==
    /\ cap_gains_rate' = IF p = 1 THEN w ELSE cap_gains_rate
    /\ annual_return_rate' = IF p = 2 THEN w ELSE annual_return_rate
    /\ monthly_contribution' = IF p = 3 THEN w ELSE monthly_contribution
    /\ years_to_invest' = IF p = 4 THEN w ELSE years_to_invest
    /\ age' = IF p = 5 THEN (IF w = IntV(MaxSize) THEN IntV(0) ELSE w)
              ELSE age

\* line 73, then lines 89/102 and the assignment in _get_inputs
ReturnInput ==
    /\ in_pc = "while"
    /\ ~NeedsRetry(value, GetInputCalls[prompt_no])
    /\ answers' = Append(answers, entered)
    /\ returned' = Append(returned, value)
    /\ LET w == PyInt(value)
       IN IF w \in {ValueError, OverflowError}
          THEN /\ in_pc' = "raised"
               /\ UNCHANGED <<params, prompt_no>>
          ELSE /\ Assign(prompt_no, w)
               /\ prompt_no' = prompt_no + 1
               /\ in_pc' = IF prompt_no = Len(GetInputCalls) THEN "done"
                           ELSE "prompt"
    /\ UNCHANGED <<runVars, formatVars, value, entered>>

InputNext ==
    \/ \E s \in Lines : Prompt(s)
    \/ \E s \in Lines : Reprompt(s)
    \/ ReturnInput

SpecInputs == InputInit /\ [][InputNext]_vars

----------------------------------------------------------------------------
(* Properties *)

\* x > n and x = n for a float x and an int n, compared exactly as Python
\* compares a float with an int
FloatGT(x, n) == x.k = "inf" \/ (x.k = "float" /\ x.u > n * Unit)
FloatEQ(x, n) == x.k = "float" /\ x.u = n * Unit

\* The int n is a float: float(n) is finite and worth n
Representable(n) == IntToFloat(n) = Fin(n * Unit)

\* C1: for every positive yearsToInvest = Y the checkpoints are the
\* multiples of 5 strictly less than Y in ascending order, followed by Y:
\* strictly increasing (so without duplicate, also when Y is a multiple of
\* 5), ending in Y, and just <<Y>> for Y <= 5.
C1_Checkpoints ==
    pc \notin {"run", "idle"} =>
        LET Y == years_to_invest.u
            cp == year_checkpoints
            n == Len(cp)
        IN /\ n >= 1
           /\ cp[n] = Y
           /\ \A j \in 1..(n - 1) : cp[j] < cp[j + 1]
           /\ \A j \in 1..(n - 1) : cp[j] > 0 /\ cp[j] % 5 = 0 /\ cp[j] < Y
           /\ \A m \in 1..(Y - 1) :
                  m % 5 = 0 => \E j \in 1..(n - 1) : cp[j] = m
           /\ (Y <= 5 => cp = <<Y>>)

\* C1 witness: Y = 10, a multiple of 5, gave <<5, 10>>
C1_Witness ==
    /\ pc = "for_years"
    /\ years_to_invest = IntV(10)
    /\ year_checkpoints = <<5, 10>>

\* C2: run prints the checkpoints in ascending year order, one normal report
\* per checkpoint up to the first checkpoint whose total is infinite; there
\* it prints the overflow message instead and stops, so nothing follows the
\* overflow message and every checkpoint before it has a normal report.
C2_ReportsUntilOverflow ==
    LET n == Len(output)
        cp == year_checkpoints
    IN /\ n <= Len(cp)
       /\ \A j \in 1..n : output[j].years = cp[j]
       /\ \A j \in 1..(n - 1) : output[j].years < output[j + 1].years
       /\ \A j \in 1..(n - 1) : output[j].kind = "report"
       /\ \A j \in 1..n :
              /\ output[j].kind = "report" => output[j].total.k = "float"
              /\ output[j].kind = "overflow" =>
                     j = n /\ pc = "done" /\ total = Inf
       /\ pc \in {"for_years", "invest_monthly"} => n = idx - 1
       /\ pc = "done" =>
              \/ n = Len(cp) /\ output[n].kind = "report"
              \/ n >= 1 /\ output[n].kind = "overflow"

\* C2 witness: of the checkpoints 5, 10, 11 the second overflowed: one
\* report, the overflow message, and nothing for year 11
C2_Witness ==
    /\ pc = "done"
    /\ year_checkpoints = <<5, 10, 11>>
    /\ Len(output) = 2
    /\ output[1].kind = "report"
    /\ output[2].kind = "overflow"

\* The recurrence of _invest_monthly: T(0) = 0 and
\* T(n) = (T(n-1) + c) * (1 + r/12), in float arithmetic
C3_Recurrence ==
    /\ (pc = "for_years" /\ pc' = "invest_monthly") =>
           (total' = Fin(0) /\ i' = 0)
    /\ (pc = "invest_monthly" /\ i' = i + 1) =>
           total' = FMul(FAdd(total, AsFloat(monthly_contribution)),
                         FAdd(One, FDiv(annual_return_rate, IntToFloat(12))))

C4_ReportValues ==
    /\ \A j \in 1..Len(output) :
           output[j].kind = "report" =>
               LET r == output[j]
               IN /\ r.total.k = "float"
                  /\ r.principal = IntV(monthly_contribution.u * r.years * 12)
                  /\ r.profit = FSub(r.total, IntToFloat(r.principal.u))
                  /\ r.annual_return = FMul(r.total, annual_return_rate)
                  /\ r.annual_return_after_tax =
                         FMul(r.annual_return, FSub(One, cap_gains_rate))
    /\ (pc = "for_years" /\ idx > 1) =>
           /\ output[idx - 1].total = total
           /\ i = months
           /\ months = output[idx - 1].years * 12

\* C4 witness: a report for year 5 with a profit and a taxed return
C4_Witness ==
    /\ Len(output) >= 1
    /\ output[1].kind = "report"
    /\ output[1].years = 5
    /\ monthly_contribution = IntV(100)
    /\ cap_gains_rate = Literal(15)
    /\ annual_return_rate = Literal(10)
    /\ output[1].principal = IntV(6000)
    /\ output[1].profit.u > 0
    /\ output[1].annual_return_after_tax.u > 0
    /\ output[1].annual_return_after_tax.u < output[1].annual_return.u

\* C7: no exception leaves run(get_inputs=False) for validated parameters
\* (rates in [0, 1], monthlyContribution a positive int of any size): an
\* overflow of the compounding ends in the overflow message, never in a
\* raised error.
C7_NoException == pc # "raised"

\* What the spec's table prescribes for a rounded value r: no suffix below
\* 10^3, the k-th suffix and the divisor 10^(3k) in [10^(3k), 10^(3k+3)),
\* "Sp" and the divisor 10^24 / 1000 from 10^24 on
Suffixes == <<"K", "M", "B", "T", "Qa", "Qi", "Sx">>

Abbreviated(r, t) ==
    /\ DecLT(r, Dec(1, 3)) => t = Text(Norm(r), "")
    /\ \A k \in 1..7 :
           (~DecLT(r, Dec(1, 3 * k)) /\ DecLT(r, Dec(1, 3 * k + 3))) =>
               t = Text(Norm(Dec(r.mant, r.exp - 3 * k)), Suffixes[k])
    /\ ~DecLT(r, Dec(1, 24)) => t = Text(Norm(Dec(r.mant, r.exp - 21)), "Sp")

\* C5: _format_num picks the suffix from the rounded value: below 10^3 the
\* value is printed as it is, without suffix; in [10^(3k), 10^(3k+3)),
\* k = 1..7, it is divided by 10^(3k) and given that threshold's suffix; from
\* 10^24 on it is divided by 10^24 / 1000 and given the suffix "Sp".
C5_SuffixByThreshold ==
    fmt_pc = "return" =>
        /\ Abbreviated(rounded, result)
        /\ arg = Dec(999, 0) => result = Text(Dec(999, 0), "")
        /\ arg = Dec(1000, 3) => result = Text(Dec(1, 0), "M")

\* C5 witness: 10^24 was printed as 1000 with the suffix "Sp"
C5_Witness ==
    /\ fmt_pc = "return"
    /\ arg = Dec(1000, 21)
    /\ result = Text(Dec(1, 3), "Sp")

\* The decimal digits of the integer x, its sign left out
Digits(x) == IF x.mant = 0 THEN 1 ELSE NumDigits(Abs(x.mant)) + x.exp

\* r is the multiple of 10^q nearest to x (one of the two nearest at a tie)
NearestMultiple(r, x, q) ==
    LET lo == IF x.exp < r.exp THEN x.exp ELSE r.exp
        a == x.mant * 10^(x.exp - lo)
        b == r.mant * 10^(r.exp - lo)
    IN IF q <= lo THEN a = b
       ELSE b % 10^(q - lo) = 0 /\ 2 * Abs(a - b) <= 10^(q - lo)

\* C6: _format_num rounds to 3 leading digits before it abbreviates: an
\* integer part of d > 3 digits is rounded to the nearest multiple of
\* 10^(d-3), one of d <= 3 digits is left as it is, and the suffix is picked
\* for the rounded value.
C6_RoundsToThreeDigits ==
    /\ fmt_pc \in {"scan", "return"} =>
           LET d == Digits(num)
           IN IF d <= 3 THEN Norm(rounded) = Norm(num)
              ELSE NearestMultiple(rounded, num, d - 3)
    /\ fmt_pc = "return" => Abbreviated(rounded, result)

\* The exponent of the power of 1000 a suffix denotes
SuffixExp(suffix) ==
    CASE suffix = "" -> 0
      [] suffix = "K" -> 3
      [] suffix = "M" -> 6
      [] suffix = "B" -> 9
      [] suffix = "T" -> 12
      [] suffix = "Qa" -> 15
      [] suffix = "Qi" -> 18
      [] suffix = "Sx" -> 21
      [] suffix = "Sp" -> 24

\* C10: for every non-negative integer input the number printed, multiplied
\* by the power of 1000 its suffix denotes, is the rounded value, also from
\* 10^24 on.
C10_ValuePreserved ==
    (fmt_pc = "return" /\ arg.mant >= 0 /\ arg.exp >= 0) =>
        Norm(Dec(result.value.mant,
                 result.value.exp + SuffixExp(result.suffix)))
            = Norm(rounded)

\* The rate a percentage or decimal line denotes, as a fraction
EnteredRate(s) ==
    IF s.pct THEN RoundRat(s.n * Unit, s.d * 100)
    ELSE RoundRat(s.n * Unit, s.d)

\* A line that is a percentage between 0% and 100% or a decimal in (0, 1)
IsRateLine(s) ==
    /\ s.kind = "numeral"
    /\ s.n > 0
    /\ IF s.pct THEN s.n <= 100 * s.d ELSE s.n < s.d

\* C8: after _get_inputs a prompt answered with an empty line has left its
\* parameter at the default (capitalGainsRate 0.15, annualReturnRate 0.10,
\* yearsToInvest 20, age 0), and a valid percentage or decimal answer has
\* left the rate equal to the entered rate, a fraction between 0 and 1.
C8_BlankIsDefault ==
    in_pc = "done" =>
        /\ answers[1] = Blank => cap_gains_rate = DEFAULT_CAP_GAINS_RATE
        /\ answers[2] = Blank =>
               annual_return_rate = DEFAULT_ANNUAL_RETURN_RATE
        /\ answers[4] = Blank =>
               years_to_invest = IntV(DEFAULT_YEARS_TO_INVEST)
        /\ answers[5] = Blank => age = IntV(0)
        /\ IsRateLine(answers[1]) => cap_gains_rate = EnteredRate(answers[1])
        /\ IsRateLine(answers[2]) =>
               annual_return_rate = EnteredRate(answers[2])

\* C9: _get_input asks again after every line that does not convert or, with
\* enforce_positive, is not greater than 0, and returns at the first valid
\* line: what it returns is never None and, with enforce_positive, is
\* strictly positive.
C9_ReturnsValidValue ==
    \A p \in 1..Len(returned) :
        /\ returned[p] # None
        /\ GetInputCalls[p].enforce_positive =>
               \/ returned[p].k \in {"int", "float"} /\ returned[p].u > 0
               \/ returned[p].k = "inf"

====
